---- MODULE Spec2Model ----
(***************************************************************************)
(* Model of the kafkacl connector lifecycle: BaseIntegrator (base.py),     *)
(* ConnectClient (connect.py), BaseConfigFormatter (config.py).            *)
(*                                                                         *)
(* Strings are sequences of tokens, so that f-string concatenation,        *)
(* str.startswith, str.split and str.replace are computed.  A Python dict  *)
(* (and the JSON text it is persisted as) is a sequence of entries         *)
(* [key, val] with unique keys, in insertion order.  A JSON value is a     *)
(* record [isMap, s, m]: a scalar s or a nested dict m.                    *)
(***************************************************************************)
EXTENDS Integers, Sequences, FiniteSets, TLC

\* ------------------------------------------------------------------ bounds
MaxConfigures == 1  \* calls of configure() by the charm in a run
MaxOptions == 2     \* options a formatter declares besides the inherited `mode`
MaxRelationId == 12 \* relation ids for which connector names are compared

\* F applied to the value of v, with v evaluated once
Bind(v, F(_)) == CHOOSE y \in {F(x) : x \in {v}} : TRUE

\* ------------------------------------------------------------ Python str
Str(t) == <<t>>

RECURSIVE Concat(_)
Concat(parts) ==
    IF parts = <<>> THEN <<>> ELSE Head(parts) \o Concat(Tail(parts))

StartsWith(s, p) ==
    /\ Len(s) >= Len(p)
    /\ SubSeq(s, 1, Len(p)) = p

RECURSIVE Replace(_, _, _)
\* str.replace(old, new) for a one-token old and a string new
Replace(s, old, new) ==
    IF s = <<>> THEN <<>>
    ELSE (IF Head(s) = old THEN new ELSE <<Head(s)>>) \o Replace(Tail(s), old, new)

RECURSIVE SplitFrom(_, _, _)
SplitFrom(s, sep, cur) ==
    IF s = <<>> THEN <<cur>>
    ELSE IF Head(s) = sep THEN <<cur>> \o SplitFrom(Tail(s), sep, <<>>)
    ELSE SplitFrom(Tail(s), sep, Append(cur, Head(s)))

\* str.split(sep): "".split(",") is [""], a list of length one
Split(s, sep) == SplitFrom(s, sep, <<>>)

\* ----------------------------------------------------------- Python dict
JScalar(x) == [isMap |-> FALSE, s |-> x, m |-> <<>>]
JMap(d) == [isMap |-> TRUE, s |-> "", m |-> d]
Entry(k, v) == [key |-> k, val |-> v]

DictKeys(d) == {d[i].key : i \in DOMAIN d}
DictHas(d, k) == k \in DictKeys(d)
DictGet(d, k) == d[CHOOSE i \in DOMAIN d : d[i].key = k].val
KeyList(d) == [i \in DOMAIN d |-> d[i].key]

\* d[k] = v : an existing key keeps its position, a new key is appended
DictSet(d, k, v) ==
    IF DictHas(d, k)
    THEN [i \in DOMAIN d |-> IF d[i].key = k THEN Entry(k, v) ELSE d[i]]
    ELSE Append(d, Entry(k, v))

RECURSIVE DictUpdate(_, _)
DictUpdate(d, e) ==
    IF e = <<>> THEN d
    ELSE DictUpdate(DictSet(d, Head(e).key, Head(e).val), Tail(e))

RECURSIVE DictPop(_, _)
DictPop(d, k) ==
    IF d = <<>> THEN <<>>
    ELSE IF Head(d).key = k THEN DictPop(Tail(d), k)
    ELSE <<Head(d)>> \o DictPop(Tail(d), k)

\* a | b
DictOr(a, b) == DictUpdate(a, b)

\* the mapping a dict denotes, insertion order forgotten
AsMap(d) == [k \in DictKeys(d) |-> DictGet(d, k)]
\* ------------------------------------------------------------- config.py
ConfigOption(name, json_key, default, mode, configurable) ==
    [name |-> name, json_key |-> json_key, default |-> default,
     mode |-> mode, configurable |-> configurable]

\* BaseConfigFormatter.mode
BaseModeOption == ConfigOption(Str("mode"), Str("na"), JScalar("source"), "none", TRUE)

\* the FileStream ConfigFormatter of the test charm, in the order of
\* dir(cls) (sorted names); of its four non-configurable "both" options
\* (tasks_max, topic_partitions, topic_replication_factor, value_converter)
\* one is kept
ConfigFormatter ==
    << ConfigOption(Str("file_path"), Str("file"), JScalar("test.jsonl"), "both", TRUE),
       ConfigOption(Str("key_converter"), Str("key.converter"),
                    JScalar("StringConverter"), "sink", FALSE),
       BaseModeOption,
       ConfigOption(Str("tasks_max"), Str("tasks.max"), JScalar("1"), "both", FALSE),
       ConfigOption(Str("topic"), Str("topic"), JScalar("test"), "source", TRUE) >>

RECURSIVE to_dict_from(_, _, _, _)
to_dict_from(fields, charm_config, mode, ret) ==
    IF fields = <<>> THEN ret
    ELSE LET option == Head(fields)
             rest == Tail(fields)
         IN  IF option.mode = "none"
             THEN to_dict_from(rest, charm_config, mode, ret)
             ELSE IF option.mode # "both" /\ option.mode # mode
             THEN to_dict_from(rest, charm_config, mode, ret)
             ELSE IF option.configurable /\ DictHas(charm_config, option.name)
             THEN to_dict_from(rest, charm_config, mode,
                               DictSet(ret, option.json_key,
                                       DictGet(charm_config, option.name)))
             ELSE to_dict_from(rest, charm_config, mode,
                               DictSet(ret, option.json_key, option.default))

\* to_dict that formats for the source mode whatever mode it is given
to_dict_ignores_mode(fields, charm_config, mode) ==
    to_dict_from(fields, charm_config, "source", <<>>)

\* to_dict that takes the charm config value for options that are not configurable too
to_dict_all_configurable(fields, charm_config, mode) ==
    to_dict_from([i \in DOMAIN fields |-> [fields[i] EXCEPT !.configurable = TRUE]],
                 charm_config, mode, <<>>)

\* BaseConfigFormatter.to_dict
to_dict(fields, charm_config, mode) == to_dict_from(fields, charm_config, mode, <<>>)

\* ------------------------------------------------------------- models.py
TaskStatus == {"UNASSIGNED", "PAUSED", "RUNNING", "STOPPED", "FAILED", "UNKNOWN"}

\* the reserved marker that starts a multi-connector key of the blob
MULTICONNECTOR_PREFIX == Str("multiconnector")
\* ----------------------------------------------------------------- state
VARIABLES
    peer,         \* the peer relation exists (model.get_relation(PEER_REL))
    peerStarted,  \* field "started" of the peer unit data: "true", or "" when absent
    peerConfig,   \* field "config" of the peer unit data: the JSON text of the blob
    relId,        \* id of the connect-client relation, 0 when there is none
    relCount,     \* relations established so far (relation ids are never reused)
    cfgCount,     \* calls of configure() by the charm so far
    endpoints,    \* field "endpoints" of the connect-client relation data
    charm,        \* the deployed charm: its config and its setup() implementation
    remote,       \* connectors held by the Kafka Connect cluster: name -> config
    pending,      \* an integration_created event is queued or deferred
    env,          \* "flaky", or "stable" once health, readiness and the remote hold for good
    createdOk,    \* history: connectors created (201/409 exists) since started was last cleared
    crashedPass,  \* history: a start pass was interrupted and none has completed since
    lastOp,       \* history: the operation that ran last, its inputs and its outcome
    log           \* history: what the last operation did, in order

vars == <<peer, peerStarted, peerConfig, relId, relCount, cfgCount, endpoints, charm, remote,
          pending, env, createdOk, crashedPass, lastOp, log>>

\* ------------------------------------------------------- the environment
IntegratorName == Str("test-integrator")
ModelUuid == <<"ab", "-", "cd">>
EndpointValues == {<<>>, <<"http://h1:8083", ",", "http://h2:8083">>}

\* deployments: a charm config with the setup() and the formatter the charm implements
SourceCharm ==
    [config |-> <<Entry(Str("topic"), JScalar("source_test"))>>,
     setup |-> "configure_class",
     formatter |-> ConfigFormatter]
SinkCharm ==
    [config |-> <<Entry(Str("mode"), JScalar("sink")),
                  Entry(Str("tasks_max"), JScalar("8"))>>,
     setup |-> "noop",
     formatter |-> ConfigFormatter]

\* ----------------------------------------------------- base.py, readers
RECURSIVE Digits(_)
\* the decimal digits of a positive integer, as an f-string renders it
Digits(n) ==
    IF n < 10 THEN Str(ToString(n))
    ELSE Append(Digits(n \div 10), ToString(n % 10))

\* a name that leaves out the relation id
connector_unique_name_without_id(rel) ==
    IF rel = 0 THEN <<>>
    ELSE Concat(<<IntegratorName, Str("_"), Replace(ModelUuid, "-", <<>>)>>)

\* BaseIntegrator.connector_unique_name
connector_unique_name(rel) ==
    IF rel = 0 THEN <<>>
    ELSE Concat(<<IntegratorName, Str("_r"), Digits(rel), Str("_"),
                  Replace(ModelUuid, "-", <<>>)>>)

\* BaseIntegrator.started (getter)
started_get(p, field) == IF ~p THEN FALSE ELSE field # ""

\* a setter that writes the field whether or not the peer relation exists
started_set_without_peer(p, field, val) == IF val THEN "true" ELSE ""

\* a setter that never persists the flag
started_set_never(p, field, val) == field

\* BaseIntegrator.started (setter): the new value of the field
started_set(p, field, val) ==
    IF ~p THEN field
    ELSE IF val THEN "true" ELSE ""

\* BaseIntegrator.dynamic_config
dynamic_config_of(p, text) == IF ~p THEN <<>> ELSE text

RECURSIVE connector_names_of(_)
\* BaseIntegrator.connector_names
connector_names_of(dc) ==
    IF dc = <<>> THEN <<>>
    ELSE (IF StartsWith(Head(dc).key, MULTICONNECTOR_PREFIX)
          THEN <<Head(dc).key>> ELSE <<>>) \o connector_names_of(Tail(dc))

\* BaseIntegrator.mode, read from the charm config in __init__
integrator_mode(cfg) ==
    IF DictHas(cfg, Str("mode")) THEN DictGet(cfg, Str("mode")).s ELSE "source"

started == started_get(peer, peerStarted)
dynamic_config == dynamic_config_of(peer, peerConfig)
connector_names == connector_names_of(dynamic_config)

\* ----------------------------------------------------- base.py, configure
SingleConfig(d) == [isList |-> FALSE, d |-> d, l |-> <<>>]
ListConfig(l) == [isList |-> TRUE, d |-> <<>>, l |-> l]

\* a key that leaves out the connector unique name
connector_id_without_relation(name, uniq) ==
    Concat(<<MULTICONNECTOR_PREFIX, Str("_"), Str(name)>>)

\* the f-string that makes the key of a named connector
connector_id(name, uniq) ==
    Concat(<<MULTICONNECTOR_PREFIX, Str("_"), Str(name), Str("_"), uniq>>)

RECURSIVE configure_list(_, _, _)
\* the loop over a list of connector configs; raised on a missing "name"
configure_list(updated, l, uniq) ==
    IF l = <<>> THEN [raised |-> FALSE, config |-> updated]
    ELSE LET connector_config == Head(l)
         IN  IF ~DictHas(connector_config, Str("name"))
             THEN [raised |-> TRUE, config |-> updated]
             ELSE configure_list(
                    DictSet(updated,
                            connector_id(DictGet(connector_config, Str("name")).s, uniq),
                            JMap(DictPop(connector_config, Str("name")))),
                    Tail(l), uniq)

\* configure that persists the entries stored before the one without a name
configure_persists_partial(p, text, rel, config) ==
    IF ~p THEN [raised |-> FALSE, text |-> text]
    ELSE LET updated_config == dynamic_config_of(p, text)
         IN  IF ~config.isList
             THEN [raised |-> FALSE, text |-> DictUpdate(updated_config, config.d)]
             ELSE LET r == configure_list(updated_config, config.l,
                                          connector_unique_name(rel))
                  IN  [raised |-> r.raised, text |-> r.config]

\* configure that starts from an empty mapping instead of the persisted one
configure_from_scratch(p, text, rel, config) ==
    IF ~p THEN [raised |-> FALSE, text |-> text]
    ELSE IF ~config.isList
         THEN [raised |-> FALSE, text |-> DictUpdate(<<>>, config.d)]
         ELSE LET r == configure_list(<<>>, config.l, connector_unique_name(rel))
              IN  IF r.raised THEN [raised |-> TRUE, text |-> text]
                  ELSE [raised |-> FALSE, text |-> r.config]

\* BaseIntegrator.configure: the text persisted afterwards and whether it raised
configure(p, text, rel, config) ==
    IF ~p THEN [raised |-> FALSE, text |-> text]
    ELSE LET updated_config == dynamic_config_of(p, text)
         IN  IF ~config.isList
             THEN [raised |-> FALSE, text |-> DictUpdate(updated_config, config.d)]
             ELSE LET r == configure_list(updated_config, config.l,
                                          connector_unique_name(rel))
                  IN  IF r.raised THEN [raised |-> TRUE, text |-> text]
                      ELSE [raised |-> FALSE, text |-> r.config]

\* Integrator.setup of the test charm, or a setup that does nothing
setup(kind, p, text, rel, cfg) ==
    IF kind = "configure_class"
    THEN configure(p, text, rel,
           SingleConfig(<<Entry(Str("connector.class"),
                JScalar(IF integrator_mode(cfg) = "source"
                        THEN "FileStreamSourceConnector"
                        ELSE "FileStreamSinkConnector"))>>)).text
    ELSE text
\* ------------------------------------------------ the Kafka Connect side
\* what the HTTP layer hands back: an exception, or a status and a body;
\* body is "exists" (JSON, message "... already exists"), "other" (JSON,
\* another message), "nomsg" (JSON without message) or "nonjson"
Transport == [exc |-> TRUE, status |-> 0, body |-> ""]
Http(status, body) == [exc |-> FALSE, status |-> status, body |-> body]

\* a call can go wrong in these ways; "none" is a responsive remote
Faults == {"none", "http500", "conflict_other", "conflict_nonjson", "reply_lost"}

RemoteHas(rem, n) == \E c \in rem : c.name = n
RemoteConfig(rem, n) == (CHOOSE c \in rem : c.name = n).config
RemotePut(rem, n, cfg) ==
    {c \in rem : c.name # n} \cup {[name |-> n, config |-> cfg]}

FaultWire(fault) ==
    CASE fault = "http500" -> Http(500, "other")
      [] fault = "conflict_other" -> Http(409, "other")
      [] fault = "conflict_nonjson" -> Http(409, "nonjson")
      [] OTHER -> Transport

\* POST /connectors {name, config}
RemotePost(rem, n, payload, fault) ==
    IF fault \in {"none", "reply_lost"}
    THEN IF RemoteHas(rem, n)
         THEN [wire |-> IF fault = "none" THEN Http(409, "exists") ELSE Transport,
               remote |-> rem]
         ELSE [wire |-> IF fault = "none" THEN Http(201, "nomsg") ELSE Transport,
               remote |-> RemotePut(rem, n, AsMap(payload))]
    ELSE [wire |-> FaultWire(fault), remote |-> rem]

\* PATCH /connectors/<name>/config
RemotePatch(rem, n, payload, fault) ==
    IF fault \in {"none", "reply_lost"}
    THEN IF RemoteHas(rem, n)
         THEN LET old == RemoteConfig(rem, n)
                  new == AsMap(payload)
                  merged == [k \in DOMAIN old \cup DOMAIN new |->
                               IF k \in DOMAIN new THEN new[k] ELSE old[k]]
              IN  [wire |-> IF fault = "none" THEN Http(200, "nomsg") ELSE Transport,
                   remote |-> RemotePut(rem, n, merged)]
         ELSE [wire |-> IF fault = "none" THEN Http(404, "other") ELSE Transport,
               remote |-> rem]
    ELSE [wire |-> FaultWire(fault), remote |-> rem]

\* ------------------------------------- what the remote answers to a read
\* a response body: JSON text that denotes doc, or text that is not JSON
Json(doc) == [json |-> TRUE, doc |-> doc]
NotJson == [json |-> FALSE, doc |-> <<>>]

\* the states Kafka Connect reports, one of them unknown to TaskStatus
ConnectorStates == TaskStatus \cup {"RESTARTING"}
TaskStates == {"RUNNING", "FAILED", "RESTARTING"}

StatusDoc(state) ==
    <<Entry(Str("connector"), JMap(<<Entry(Str("state"), JScalar(state))>>))>>
TaskDoc(n) == <<Entry(Str("id"), JMap(<<Entry(Str("task"), JScalar(n))>>))>>

\* a request can always fail in transit or be answered 500
Unserved == {Transport, Http(500, Json(<<>>))}

\* answers to GET connectors/<n>/status about a connector the remote holds
StatusAnswers ==
    Unserved \cup {Http(200, Json(StatusDoc(st))) : st \in ConnectorStates}
    \cup {Http(200, Json(<<>>)), Http(200, NotJson)}

\* answers to PUT connectors/<n>/resume
ResumeAnswers == Unserved \cup {Http(202, Json(<<>>))}

\* answers to GET connectors/<n>/tasks: no task, tasks 1 and 0, a task without id
TasksAnswers ==
    Unserved \cup
    {Http(200, Json(<<>>)), Http(200, Json(<<TaskDoc(1), TaskDoc(0)>>)),
     Http(200, Json(<< <<>> >>)), Http(200, NotJson)}

\* answers to GET connectors/<n>/tasks/<id>/status
TaskAnswers ==
    Unserved \cup {Http(404, Json(<<>>)), Http(200, Json(<<>>)), Http(200, NotJson)}
    \cup {Http(200, Json(<<Entry(Str("state"), JScalar(st))>>)) : st \in TaskStates}

\* the answer to a request about connector n: 404 when the remote does not hold it
RemoteAsk(rem, n, answer) ==
    IF answer \in Unserved \/ RemoteHas(rem, n) THEN answer
    ELSE Http(404, Json(<<>>))

\* answers to PATCH .../config, PUT .../resume, PUT .../stop and DELETE
VerbStatuses == {200, 202, 204, 404, 500}
VerbAnswers == {Transport} \cup {Http(st, Json(<<>>)) : st \in VerbStatuses}

\* DELETE connectors/<n>
RemoteDelete(rem, n) == {c \in rem : c.name # n}

\* ------------------------------------------------------------ connect.py
\* ConnectClient.endpoint
client_endpoint(eps) ==
    LET _endpoints == Split(eps, ",")
    IN  IF Len(_endpoints) < 1 THEN [err |-> "ConnectClientError", url |-> <<>>]
        ELSE [err |-> "", url |-> _endpoints[1]]

\* requests refuses a URL without a scheme before anything is sent
Reachable(eps) == client_endpoint(eps).err = "" /\ client_endpoint(eps).url # <<>>

\* ConnectClient.request: the error it raises, or the response it returns
request(eps, wire) ==
    IF client_endpoint(eps).err # "" THEN [err |-> client_endpoint(eps).err, resp |-> Transport]
    ELSE IF ~Reachable(eps) \/ wire.exc THEN [err |-> "ConnectApiError", resp |-> Transport]
    ELSE [err |-> "", resp |-> wire]

\* ConnectClient.start_connector without the "already exists" rule
client_start_connector_strict(r) ==
    IF r.err # "" THEN r.err
    ELSE IF r.resp.status = 201 THEN "ok"
    ELSE "ConnectApiError"

\* ConnectClient.start_connector: "ok" or the exception it raises
client_start_connector(r) ==
    IF r.err # "" THEN r.err
    ELSE IF r.resp.status = 201 THEN "ok"
    ELSE IF r.resp.status = 409
    THEN IF r.resp.body = "nonjson" THEN "JSONDecodeError"
         ELSE IF r.resp.body = "exists" THEN "ok"
         ELSE "ConnectApiError"
    ELSE "ConnectApiError"

\* ConnectClient.patch_connector
client_patch_connector(r) ==
    IF r.err # "" THEN r.err
    ELSE IF r.resp.status = 200 THEN "ok"
    ELSE "ConnectApiError"

\* connector_name or self.connector_name
EffectiveName(name, clientName) == IF name = <<>> THEN clientName ELSE name

\* a log entry: a call of configure (its argument as payload, the text
\* persisted before it as body), a REST call (its verb, target, payload, the status and body
\* received or 0 and "", whether it left the host, the exception the verb
\* raised or ""), or a step of the controller ("setup", "teardown",
\* "set_started", "defer", the checks of the integration_created handler)
Event(ev, name, payload, status, body, sent, err) ==
    [ev |-> ev, name |-> name, payload |-> payload, status |-> status,
     body |-> body, sent |-> sent, err |-> err]
Step(ev) == Event(ev, <<>>, <<>>, 0, "", FALSE, "")

\* one REST call of a pass: the verb's result, the remote afterwards, the log entry
client_call(verb, eps, clientName, rem, name, payload, fault) ==
    LET n == EffectiveName(name, clientName)
        reach == Reachable(eps)
        outcome(sent) ==
            LET r == request(eps, sent.wire)
                res == IF verb = "POST" THEN client_start_connector(r)
                       ELSE client_patch_connector(r)
            IN  [result |-> res, remote |-> sent.remote,
                 event |-> Event(verb, n, payload, r.resp.status, r.resp.body,
                                 reach, IF res = "ok" THEN "" ELSE res)]
    IN  Bind(IF reach
             THEN IF verb = "POST" THEN RemotePost(rem, n, payload, fault)
                  ELSE RemotePatch(rem, n, payload, fault)
             ELSE [wire |-> Transport, remote |-> rem],
             outcome)

\* ------------------------------------------- connect.py, status and resume
\* dict.get(k, default)
DictGetOr(d, k, default) == IF DictHas(d, k) THEN DictGet(d, k) ELSE default

\* what a call gives its caller: a value it returns, or an exception it raises
Returned(v) == [value |-> v, err |-> ""]
Raised(e) == [value |-> "", err |-> e]

\* TaskStatus(state): the member with that value, ValueError when there is none
TaskStatusOf(state) ==
    IF state \in TaskStatus THEN Returned(state) ELSE Raised("ValueError")

\* the api argument of request(), an f-string
StatusApi(n) == Concat(<<Str("connectors/"), n, Str("/status")>>)
ResumeApi(n) == Concat(<<Str("connectors/"), n, Str("/resume")>>)
TasksApi(n) == Concat(<<Str("connectors/"), n, Str("/tasks")>>)
TaskStatusApi(n, task_id) ==
    Concat(<<Str("connectors/"), n, Str("/tasks"), Str("/"), Str(ToString(task_id)),
             Str("/status")>>)

\* the log entry of a request that carries no payload
Call(method, api, eps, r) ==
    Event(method, api, <<>>, r.resp.status, r.resp.body, Reachable(eps), r.err)

\* ConnectClient.connector_status that lets the error of request() through
client_connector_status_no_catch(r) ==
    IF r.err # "" THEN Raised(r.err)
    ELSE IF r.resp.status \notin {200, 404} THEN Returned("UNKNOWN")
    ELSE IF r.resp.status = 404 THEN Returned("UNASSIGNED")
    ELSE IF ~r.resp.body.json THEN Raised("JSONDecodeError")
    ELSE LET status_response == r.resp.body.doc
             connector == DictGetOr(status_response, Str("connector"), JMap(<<>>))
             state == DictGetOr(connector.m, Str("state"), JScalar("UNASSIGNED"))
         IN  TaskStatusOf(state.s)

\* ConnectClient.connector_status, given what request() did
client_connector_status(r) ==
    IF r.err = "ConnectApiError" THEN Returned("UNKNOWN")
    ELSE IF r.err # "" THEN Raised(r.err)
    ELSE IF r.resp.status \notin {200, 404} THEN Returned("UNKNOWN")
    ELSE IF r.resp.status = 404 THEN Returned("UNASSIGNED")
    ELSE IF ~r.resp.body.json THEN Raised("JSONDecodeError")
    ELSE LET status_response == r.resp.body.doc
             connector == DictGetOr(status_response, Str("connector"), JMap(<<>>))
             state == DictGetOr(connector.m, Str("state"), JScalar("UNASSIGNED"))
         IN  TaskStatusOf(state.s)

\* ConnectClient.resume_connector, given what request() did
client_resume_connector(r) ==
    IF r.err # "" THEN r.err
    ELSE IF r.resp.status = 202 THEN "ok"
    ELSE "ConnectApiError"

\* stop_connector that takes every 2xx status for a success
client_stop_connector_any_2xx(r) ==
    IF r.err # "" THEN r.err
    ELSE IF r.resp.status \in 200..299 THEN "ok"
    ELSE "ConnectApiError"

\* ConnectClient.stop_connector, given what request() did
client_stop_connector(r) ==
    IF r.err # "" THEN r.err
    ELSE IF r.resp.status # 204 THEN "ConnectApiError"
    ELSE "ok"

\* ConnectClient.delete_connector, given what request() did
client_delete_connector(r) ==
    IF r.err # "" THEN r.err
    ELSE IF r.resp.status # 204 THEN "ConnectApiError"
    ELSE "ok"

StopApi(n) == Concat(<<Str("connectors/"), n, Str("/stop")>>)
DeleteApi(n) == Concat(<<Str("connectors/"), n>>)
ConfigApi(n) == Concat(<<Str("connectors/"), n, Str("/config")>>)

\* the second half of ConnectClient.task_status: the status of one task
client_task_status_of(status_response) ==
    IF status_response.err # "" THEN Raised(status_response.err)
    ELSE IF status_response.resp.status = 404 THEN Returned("UNASSIGNED")
    ELSE IF status_response.resp.status # 200 THEN Returned("UNKNOWN")
    ELSE IF ~status_response.resp.body.json THEN Raised("JSONDecodeError")
    ELSE TaskStatusOf(DictGetOr(status_response.resp.body.doc, Str("state"),
                                JScalar("UNASSIGNED")).s)

\* ConnectClient.task_status that asks for the task whatever the first answer
client_task_status_always_asks(eps, clientName, name, rem, answer1, answer2) ==
    LET connector_name == EffectiveName(name, clientName)
        response == request(eps, RemoteAsk(rem, connector_name, answer1))
        first == Call("GET", TasksApi(connector_name), eps, response)
        status_response == request(eps, RemoteAsk(rem, connector_name, answer2))
        res == client_task_status_of(status_response)
    IN  [value |-> res.value, err |-> res.err,
         log |-> <<first, Call("GET", TaskStatusApi(connector_name, 0), eps,
                               status_response)>>]

\* ConnectClient.task_status: what it returns or raises, and its requests;
\* answer1 is for the request for the tasks, answer2 for the one for the task
client_task_status(eps, clientName, name, rem, answer1, answer2) ==
    LET connector_name == EffectiveName(name, clientName)
        response == request(eps, RemoteAsk(rem, connector_name, answer1))
        first == Call("GET", TasksApi(connector_name), eps, response)
        done(res) == [value |-> res.value, err |-> res.err, log |-> <<first>>]
    IN  IF response.err # "" THEN done(Raised(response.err))
        ELSE IF response.resp.status \notin {200, 404} THEN done(Returned("UNKNOWN"))
        ELSE IF response.resp.status = 404 THEN done(Returned("UNASSIGNED"))
        ELSE IF ~response.resp.body.json THEN done(Raised("JSONDecodeError"))
        ELSE LET tasks == response.resp.body.doc
             IN  IF tasks = <<>> THEN done(Returned("UNASSIGNED"))
                 ELSE LET id == DictGetOr(tasks[1], Str("id"), JMap(<<>>))
                          task_id == DictGetOr(id.m, Str("task"), JScalar(0)).s
                          status_response ==
                              request(eps, RemoteAsk(rem, connector_name, answer2))
                          res == client_task_status_of(status_response)
                      IN  [value |-> res.value, err |-> res.err,
                           log |-> <<first,
                                     Call("GET", TaskStatusApi(connector_name, task_id),
                                          eps, status_response)>>]

\* ------------------------------------------------- base.py, start / patch
\* pass_calls with the merge the wrong way round: the formatter output wins
pass_calls_left_biased(dc, base) ==
    LET names == connector_names_of(dc)
    IN  IF names # <<>>
        THEN [i \in DOMAIN names |->
                LET v == DictGet(dc, names[i])
                IN  [name |-> names[i],
                     bad |-> ~v.isMap,
                     payload |-> IF v.isMap THEN DictOr(v.m, base) ELSE <<>>]]
        ELSE << [name |-> <<>>, bad |-> FALSE, payload |-> DictOr(dc, base)] >>

\* the REST calls of a pass, in order: one per name of connector_names with
\* that name's overrides, or one call without a name and with the whole blob
pass_calls(dc, base) ==
    LET names == connector_names_of(dc)
    IN  IF names # <<>>
        THEN [i \in DOMAIN names |->
                LET v == DictGet(dc, names[i])
                IN  [name |-> names[i],
                     bad |-> ~v.isMap,
                     payload |-> IF v.isMap THEN DictOr(base, v.m) ELSE <<>>]]
        ELSE << [name |-> <<>>, bad |-> FALSE, payload |-> DictOr(base, dc)] >>

RECURSIVE pass_run_continue(_, _, _, _, _, _, _, _, _, _)
\* pass_run that goes on to the next connector after a failed call
pass_run_continue(verb, calls, i, eps, clientName, rem, lg, faultAt, faultKind, limit) ==
    IF limit >= 0 /\ i > limit THEN [result |-> "crashed", remote |-> rem, log |-> lg]
    ELSE IF i > Len(calls) THEN [result |-> "ok", remote |-> rem, log |-> lg]
    ELSE IF calls[i].bad THEN [result |-> "TypeError", remote |-> rem, log |-> lg]
    ELSE LET next(c) ==
                 pass_run_continue(verb, calls, i + 1, eps, clientName, c.remote,
                                   Append(lg, c.event), faultAt, faultKind, limit)
         IN  Bind(client_call(verb, eps, clientName, rem, calls[i].name,
                              calls[i].payload,
                              IF i = faultAt THEN faultKind ELSE "none"), next)

RECURSIVE pass_run(_, _, _, _, _, _, _, _, _, _)
\* runs calls[i..]; stops at the first call that raises; limit >= 0 is the
\* number of calls after which the process dies (a crash), -1 is no crash
pass_run(verb, calls, i, eps, clientName, rem, lg, faultAt, faultKind, limit) ==
    IF limit >= 0 /\ i > limit THEN [result |-> "crashed", remote |-> rem, log |-> lg]
    ELSE IF i > Len(calls) THEN [result |-> "ok", remote |-> rem, log |-> lg]
    ELSE IF calls[i].bad THEN [result |-> "TypeError", remote |-> rem, log |-> lg]
    ELSE LET next(c) ==
                 IF c.result = "ok"
                 THEN pass_run(verb, calls, i + 1, eps, clientName, c.remote,
                               Append(lg, c.event), faultAt, faultKind, limit)
                 ELSE [result |-> c.result, remote |-> c.remote,
                       log |-> Append(lg, c.event)]
         IN  Bind(client_call(verb, eps, clientName, rem, calls[i].name,
                              calls[i].payload,
                              IF i = faultAt THEN faultKind ELSE "none"), next)

\* pass_result that forgets the write of the flag
pass_result_no_flag(text1, ncalls, run) ==
    [text |-> text1,
     field |-> peerStarted,
     remote |-> run.remote,
     log |-> run.log,
     ncalls |-> ncalls,
     outcome |-> CASE run.result = "ok" -> "done"
                   [] run.result = "ConnectApiError" -> "aborted"
                   [] run.result = "crashed" -> "crashed"
                   [] OTHER -> "raised"]

\* pass_result of a pass that writes the flag before its calls
pass_result_flag_first(text1, ncalls, run) ==
    [text |-> text1,
     field |-> started_set(peer, peerStarted, TRUE),
     remote |-> run.remote,
     log |-> <<Step("set_started")>> \o run.log,
     ncalls |-> ncalls,
     outcome |-> CASE run.result = "ok" -> "done"
                   [] run.result = "ConnectApiError" -> "aborted"
                   [] run.result = "crashed" -> "crashed"
                   [] OTHER -> "raised"]

\* what a pass leaves behind once its calls have run
pass_result(text1, ncalls, run) ==
    [text |-> text1,
     field |-> IF run.result = "ok" THEN started_set(peer, peerStarted, TRUE)
               ELSE peerStarted,
     remote |-> run.remote,
     log |-> IF run.result = "ok" THEN Append(run.log, Step("set_started"))
             ELSE run.log,
     ncalls |-> ncalls,
     outcome |-> CASE run.result = "ok" -> "done"
                   [] run.result = "ConnectApiError" -> "aborted"
                   [] run.result = "crashed" -> "crashed"
                   [] OTHER -> "raised"]

\* a pass that reads the blob before it runs setup
lifecycle_pass_reads_before_setup(verb, faultAt, faultKind, limit) ==
    LET after_setup(text1) ==
          LET dc == dynamic_config_of(peer, peerConfig)
              base == to_dict(charm.formatter, charm.config, "source")
              run(calls) ==
                  pass_run(verb, calls, 1, endpoints, connector_unique_name(relId),
                           remote, <<Step("setup")>>, faultAt, faultKind, limit)
              finish(calls) == Bind(run(calls), LAMBDA r : pass_result(text1, Len(calls), r))
          IN  Bind(pass_calls(dc, base), finish)
    IN  Bind(setup(charm.setup, peer, peerConfig, relId, charm.config), after_setup)

\* the body shared by start_connector and patch_connector after their guard:
\* setup, the calls, and the write of the flag when every call returned
lifecycle_pass(verb, faultAt, faultKind, limit) ==
    LET after_setup(text1) ==
          LET dc == dynamic_config_of(peer, text1)
              base == to_dict(charm.formatter, charm.config, "source")
              run(calls) ==
                  pass_run(verb, calls, 1, endpoints, connector_unique_name(relId),
                           remote, <<Step("setup")>>, faultAt, faultKind, limit)
              finish(calls) == Bind(run(calls), LAMBDA r : pass_result(text1, Len(calls), r))
          IN  Bind(pass_calls(dc, base), finish)
    IN  Bind(setup(charm.setup, peer, peerConfig, relId, charm.config), after_setup)

Unchanged ==
    [text |-> peerConfig, field |-> peerStarted, remote |-> remote, log |-> <<>>,
     ncalls |-> 0, outcome |-> "noop"]

\* start_connector without its guard on started
start_connector_no_guard(faultAt, faultKind, limit) ==
    lifecycle_pass("POST", faultAt, faultKind, limit)

\* BaseIntegrator.start_connector
start_connector(faultAt, faultKind, limit) ==
    IF started THEN Unchanged
    ELSE lifecycle_pass("POST", faultAt, faultKind, limit)

\* patch_connector without its guard on started
patch_connector_no_guard(faultAt, faultKind, limit) ==
    lifecycle_pass("PATCH", faultAt, faultKind, limit)

\* patch_connector that clears the flag when a PATCH fails
patch_connector_clears(faultAt, faultKind, limit) ==
    IF ~started THEN Unchanged
    ELSE LET r == lifecycle_pass("PATCH", faultAt, faultKind, limit)
         IN  IF r.outcome = "aborted"
             THEN [r EXCEPT !.field = started_set(peer, peerStarted, FALSE)]
             ELSE r

\* BaseIntegrator.patch_connector
patch_connector(faultAt, faultKind, limit) ==
    IF ~started THEN Unchanged
    ELSE lifecycle_pass("PATCH", faultAt, faultKind, limit)

\* connectors for which the log shows a create that returned normally
CreatedIn(lg) ==
    {lg[i].name : i \in {j \in DOMAIN lg : lg[j].ev = "POST" /\ lg[j].err = ""}}
\* ------------------------------------------- base.py, status and resume
\* BaseIntegrator.connector_status: the status of the client's own connector
connector_status(answer) ==
    LET r == request(endpoints,
                     RemoteAsk(remote, connector_unique_name(relId), answer))
        res == client_connector_status(r)
    IN  [value |-> res.value, err |-> res.err,
         log |-> <<Call("GET", StatusApi(connector_unique_name(relId)), endpoints, r)>>]

\* task_status without its guard on started
task_status_no_guard(answer1, answer2) ==
    IF connector_names # <<>>
    THEN client_task_status(endpoints, connector_unique_name(relId),
                            connector_names[1], remote, answer1, answer2)
    ELSE client_task_status(endpoints, connector_unique_name(relId), <<>>,
                            remote, answer1, answer2)

\* BaseIntegrator.task_status
task_status(answer1, answer2) ==
    IF ~started THEN [value |-> "UNASSIGNED", err |-> "", log |-> <<>>]
    ELSE IF connector_names # <<>>
    THEN client_task_status(endpoints, connector_unique_name(relId),
                            connector_names[1], remote, answer1, answer2)
    ELSE client_task_status(endpoints, connector_unique_name(relId), <<>>,
                            remote, answer1, answer2)

\* the log entry of the status that maybe_resume_connector compares
Read(res) == Event("status", <<>>, <<>>, 0, res.value, FALSE, res.err)

\* the resume call of maybe_resume_connector and how the operation ends
resume_step(lg, answer, onFailure) ==
    LET r == request(endpoints,
                     RemoteAsk(remote, connector_unique_name(relId), answer))
        res == client_resume_connector(r)
    IN  [outcome |-> IF res = "ok" THEN "resumed"
                     ELSE IF res = "ConnectApiError" THEN onFailure
                     ELSE "raised",
         log |-> Append(lg, Call("PUT", ResumeApi(connector_unique_name(relId)),
                                 endpoints, r))]

\* maybe_resume_connector that resumes whatever is not running
maybe_resume_connector_unless_running(answer1, answer2) ==
    LET st == connector_status(answer1)
        lg == Append(st.log, Read(st))
    IN  IF st.err # "" THEN [outcome |-> "raised", log |-> lg]
        ELSE IF st.value = "RUNNING" THEN [outcome |-> "skipped", log |-> lg]
        ELSE resume_step(lg, answer2, "failed")

\* maybe_resume_connector that lets the error of the resume call through
maybe_resume_connector_escalates(answer1, answer2) ==
    LET st == connector_status(answer1)
        lg == Append(st.log, Read(st))
    IN  IF st.err # "" THEN [outcome |-> "raised", log |-> lg]
        ELSE IF st.value # "STOPPED" THEN [outcome |-> "skipped", log |-> lg]
        ELSE resume_step(lg, answer2, "raised")

\* BaseIntegrator.maybe_resume_connector: how it ends ("skipped", "resumed",
\* "failed" when the resume call failed and was logged, "raised") and its log
maybe_resume_connector(answer1, answer2) ==
    LET st == connector_status(answer1)
        lg == Append(st.log, Read(st))
    IN  IF st.err # "" THEN [outcome |-> "raised", log |-> lg]
        ELSE IF st.value # "STOPPED" THEN [outcome |-> "skipped", log |-> lg]
        ELSE resume_step(lg, answer2, "failed")

\* ------------------------------------------------- inputs of the actions
SingleDicts ==
    { <<Entry(Str("topic"), JScalar("o2")), Entry(Str("file"), JScalar("f2"))>> }

EntryA1 == <<Entry(Str("name"), JScalar("a")), Entry(Str("topic"), JScalar("ta"))>>
EntryA2 == <<Entry(Str("name"), JScalar("a")), Entry(Str("file"), JScalar("fa"))>>
EntryB == <<Entry(Str("name"), JScalar("b"))>>
Nameless == <<Entry(Str("topic"), JScalar("nameless"))>>

\* lists of connector configs: two connectors in either order (the second
\* list replaces what the first stored for "a"), and an entry without
\* "name" first or last
ListInputs ==
    { <<EntryA1, EntryB>>, <<EntryB, EntryA2>>,
      <<EntryB, Nameless>>, <<Nameless, EntryB>> }

ConfigInputs ==
    {SingleConfig(d) : d \in SingleDicts} \cup {ListConfig(l) : l \in ListInputs}

\* where a pass can be made to fail: nowhere, or at its k-th call with a
\* fault; a pass that its guard skips has no call to fail
NCalls == Len(pass_calls(dynamic_config, <<>>))
FaultInputs(faults, runs) ==
    {<<0, "none">>} \cup
    (IF runs THEN {<<k, f>> : k \in 1..NCalls, f \in faults \ {"none"}} ELSE {})

\* the record of an operation: what ran, how it ended, whether started read
\* true when it began, whether it follows an interrupted pass
Op(op, outcome) ==
    [op |-> op, outcome |-> outcome, wasStarted |-> started,
     afterCrash |-> crashedPass]

\* --------------------------------------------------------------- actions
InitWith(c, p) ==
    /\ peer = p
    /\ peerStarted = ""
    /\ peerConfig = <<>>
    /\ relId = 0
    /\ relCount = 0
    /\ cfgCount = 0
    /\ endpoints = <<>>
    /\ charm = c
    /\ remote = {}
    /\ pending = FALSE
    /\ env = "flaky"
    /\ createdOk = {}
    /\ crashedPass = FALSE
    /\ lastOp = [op |-> "init", outcome |-> "", wasStarted |-> FALSE,
                 afterCrash |-> FALSE]
    /\ log = <<>>

\* a deployed unit: Juju has established the peer relation before the first hook
Init == InitWith(SourceCharm, TRUE)

\* Juju establishes the peer relation of the unit
PeerRelationCreated ==
    /\ ~peer
    /\ peer' = TRUE
    /\ lastOp' = Op("peer_created", "")
    /\ log' = <<>>
    /\ UNCHANGED <<peerStarted, peerConfig, relId, relCount, cfgCount, endpoints,
                   charm, remote, pending, env, createdOk, crashedPass>>

\* the connect-client relation is established and the provider publishes
\* its data: integration_created is emitted
RelationCreated(id, eps) ==
    /\ relId = 0
    /\ id = relCount + 1
    /\ relId' = id
    /\ relCount' = relCount + 1
    /\ endpoints' = eps
    /\ pending' = TRUE
    /\ lastOp' = Op("relation_created", "")
    /\ log' = <<>>
    /\ UNCHANGED <<peer, peerStarted, peerConfig, cfgCount, charm, remote, env,
                   createdOk, crashedPass>>

\* the charm calls BaseIntegrator.configure(config)
Configure(config) ==
    /\ cfgCount < MaxConfigures
    /\ \E r \in {configure(peer, peerConfig, relId, config)} :
           /\ peerConfig' = r.text
           /\ lastOp' = Op("configure", IF r.raised THEN "raised" ELSE "returned")
           /\ log' = <<Event("configure", <<>>, config, 0, peerConfig, FALSE,
                             IF r.raised THEN "KeyError" ELSE "")>>
    /\ cfgCount' = cfgCount + 1
    /\ UNCHANGED <<peer, peerStarted, relId, relCount, endpoints, charm, remote,
                   pending, env, createdOk, crashedPass>>

\* the effect of a start or patch pass on the state
ApplyPass(r) ==
    /\ peerConfig' = r.text
    /\ peerStarted' = r.field
    /\ remote' = r.remote
    /\ log' = r.log
    /\ createdOk' = createdOk \cup CreatedIn(r.log)
    /\ crashedPass' = CASE r.outcome = "crashed" -> TRUE
                        [] r.outcome = "done" -> FALSE
                        [] OTHER -> crashedPass

\* the charm calls BaseIntegrator.start_connector()
StartConnector(faultAt, faultKind) ==
    /\ \E r \in {start_connector(faultAt, faultKind, -1)} :
           /\ ApplyPass(r)
           /\ lastOp' = Op("start", r.outcome)
    /\ UNCHANGED <<peer, relId, relCount, cfgCount, endpoints, charm, pending, env>>

\* start_connector() is interrupted (the process dies) after setup and
\* `limit` creates, before the step that follows
StartCrash(limit) ==
    /\ env = "flaky"
    /\ ~started
    /\ \E r \in {start_connector(0, "none", limit)} :
           /\ limit <= r.ncalls
           /\ ApplyPass(r)
           /\ lastOp' = Op("start", r.outcome)
    /\ UNCHANGED <<peer, relId, relCount, cfgCount, endpoints, charm, pending, env>>

\* the charm calls BaseIntegrator.patch_connector()
PatchConnector(faultAt, faultKind) ==
    /\ \E r \in {patch_connector(faultAt, faultKind, -1)} :
           /\ ApplyPass(r)
           /\ lastOp' = Op("patch", r.outcome)
    /\ UNCHANGED <<peer, relId, relCount, cfgCount, endpoints, charm, pending, env>>

\* the checks of the handler, in the order of its short-circuit `or`
Checks(health, ready) ==
    IF ~health THEN <<Step("health_failed")>>
    ELSE <<Step("health_ok"), Step(IF ready THEN "ready" ELSE "not_ready")>>

\* the handler past its checks: start_connector(), then defer unless started
StartOrDefer(checks, faultAt, faultKind) ==
    \E r \in {start_connector(faultAt, faultKind, -1)} :
        LET after == started_get(peer, r.field)
            deferred == r.outcome # "raised" /\ ~after
        IN  /\ ApplyPass([r EXCEPT !.log =
                            checks \o r.log \o
                            (IF deferred THEN <<Step("defer")>> ELSE <<>>)])
            /\ pending' = (r.outcome = "raised" \/ ~after)
            /\ lastOp' = Op("integration_created",
                            IF r.outcome = "raised" THEN "raised"
                            ELSE IF deferred THEN "deferred" ELSE "handled")

\* the handler without its checks of health and readiness
OnIntegrationCreated_unchecked(health, ready, faultAt, faultKind) ==
    /\ pending
    /\ StartOrDefer(Checks(health, ready), faultAt, faultKind)
    /\ UNCHANGED <<peer, relId, relCount, cfgCount, endpoints, charm, env>>

\* BaseIntegrator._on_integration_created
OnIntegrationCreated(health, ready, faultAt, faultKind) ==
    /\ pending
    /\ IF ~health \/ ~ready
       THEN /\ log' = Append(Checks(health, ready), Step("defer"))
            /\ lastOp' = Op("integration_created", "deferred")
            /\ UNCHANGED <<peerStarted, peerConfig, remote, pending, createdOk,
                           crashedPass>>
       ELSE StartOrDefer(Checks(health, ready), faultAt, faultKind)
    /\ UNCHANGED <<peer, relId, relCount, cfgCount, endpoints, charm, env>>

\* the handler that also forgets the dynamic configuration
OnRelationBroken_drops_config ==
    /\ env = "flaky"
    /\ relId # 0
    /\ peerStarted' = started_set(peer, peerStarted, FALSE)
    /\ peerConfig' = <<>>
    /\ log' = <<Step("teardown"), Step("set_started")>>
    /\ lastOp' = Op("relation_broken", "returned")
    /\ relId' = 0
    /\ endpoints' = <<>>
    /\ createdOk' = {}
    /\ crashedPass' = FALSE
    /\ UNCHANGED <<peer, relCount, cfgCount, charm, remote, pending, env>>

\* the handler without the write of the flag
OnRelationBroken_keeps_flag ==
    /\ env = "flaky"
    /\ relId # 0
    /\ peerStarted' = peerStarted
    /\ log' = <<Step("teardown")>>
    /\ lastOp' = Op("relation_broken", "returned")
    /\ relId' = 0
    /\ endpoints' = <<>>
    /\ createdOk' = {}
    /\ crashedPass' = FALSE
    /\ UNCHANGED <<peer, peerConfig, relCount, cfgCount, charm, remote, pending, env>>

\* BaseIntegrator._on_relation_broken, after which the relation is gone
OnRelationBroken ==
    /\ env = "flaky"
    /\ relId # 0
    /\ peerStarted' = started_set(peer, peerStarted, FALSE)
    /\ log' = <<Step("teardown"), Step("set_started")>>
    /\ lastOp' = Op("relation_broken", "returned")
    /\ relId' = 0
    /\ endpoints' = <<>>
    /\ createdOk' = {}
    /\ crashedPass' = FALSE
    /\ UNCHANGED <<peer, peerConfig, relCount, cfgCount, charm, remote, pending, env>>

\* from here on the health check and the readiness predicate hold and the
\* remote answers every request
Stabilize ==
    /\ env = "flaky"
    /\ relId # 0
    /\ Reachable(endpoints)
    /\ env' = "stable"
    /\ lastOp' = Op("stabilize", "")
    /\ log' = <<>>
    /\ UNCHANGED <<peer, peerStarted, peerConfig, relId, relCount, cfgCount,
                   endpoints, charm, remote, pending, createdOk, crashedPass>>

\* an integration_created event is delivered while health check or readiness fails
DeliverUnready ==
    /\ env = "flaky"
    /\ \E hr \in {<<FALSE, TRUE>>, <<TRUE, FALSE>>} :
          OnIntegrationCreated(hr[1], hr[2], 0, "none")

\* an integration_created event is delivered while both hold
Deliver(faults) ==
    \E f \in FaultInputs(faults, ~started) : OnIntegrationCreated(TRUE, TRUE, f[1], f[2])

\* the steps of the system, for given sets of inputs
NextWith(rels, epsValues, configs, faults) ==
    \/ \E id \in rels, eps \in epsValues : RelationCreated(id, eps)
    \/ \E config \in configs : Configure(config)
    \/ \E f \in FaultInputs(faults, ~started) : StartConnector(f[1], f[2])
    \/ \E limit \in 0..NCalls : StartCrash(limit)
    \/ \E f \in FaultInputs(faults, started) : PatchConnector(f[1], f[2])
    \/ DeliverUnready
    \/ Deliver(faults)
    \/ OnRelationBroken

\* smaller input sets: one dict and one list; a responsive remote, one that
\* answers with an error status, one whose answer is lost
LiveConfigs == {SingleConfig(<<Entry(Str("topic"), JScalar("o1"))>>),
                ListConfig(<<EntryA1, EntryB>>)}
LiveFaults == {"none", "http500", "reply_lost"}

\* every configure input, against the three kinds of answer
Next == NextWith({1}, EndpointValues, ConfigInputs, LiveFaults)

Spec == Init /\ [][Next]_vars

\* the store before the peer relation exists, against every kind of answer
InitStore == InitWith(SourceCharm, FALSE)
NextStore ==
    \/ PeerRelationCreated
    \/ NextWith({1}, EndpointValues, LiveConfigs, Faults)
SpecStore == InitStore /\ [][NextStore]_vars

\* redelivery of the deferred event is fair; the environment may stabilize
NextLive ==
    \/ NextWith({1}, EndpointValues, LiveConfigs,
                IF env = "stable" THEN {"none"} ELSE LiveFaults)
    \/ Stabilize
\* the delivery of a queued or deferred integration_created event once the
\* environment is stable
Redelivered ==
    /\ env = "stable"
    /\ Deliver({"none"})

\* the framework redelivers a deferred event on every later dispatch
SpecLive ==
    /\ Init
    /\ [][NextLive]_vars
    /\ WF_vars(Redelivered)

\* ---------------------------------------------- status reads and resume
\* a read that clears the started flag
Observe_clears_flag(op, outcome, lg) ==
    /\ lastOp' = Op(op, outcome)
    /\ log' = lg
    /\ peerStarted' = started_set(peer, peerStarted, FALSE)
    /\ UNCHANGED <<peer, peerConfig, relId, relCount, cfgCount,
                   endpoints, charm, remote, pending, env, createdOk, crashedPass>>

\* an operation that reads the remote: it leaves a record and a log
Observe(op, outcome, lg) ==
    /\ lastOp' = Op(op, outcome)
    /\ log' = lg
    /\ UNCHANGED <<peer, peerStarted, peerConfig, relId, relCount, cfgCount,
                   endpoints, charm, remote, pending, env, createdOk, crashedPass>>

\* what a read gave its caller: the status returned, or the exception raised
Outcome(r) == IF r.err # "" THEN r.err ELSE r.value

\* the charm calls BaseIntegrator.maybe_resume_connector() (update-status)
MaybeResume(answer1, answer2) ==
    \E r \in {maybe_resume_connector(answer1, answer2)} :
        Observe("resume", r.outcome, r.log)

\* the charm reads BaseIntegrator.connector_status (collect-status)
ConnectorStatus(answer) ==
    \E r \in {connector_status(answer)} :
        Observe("connector_status", Outcome(r), r.log)

\* the charm reads BaseIntegrator.task_status
TaskStatusRead(answer1, answer2) ==
    \E r \in {task_status(answer1, answer2)} :
        Observe("task_status", Outcome(r), r.log)

\* the lifecycle against a responsive remote, with the reads and the resume
StatusConfigs == {ListConfig(<<EntryA1, EntryB>>)}
NextStatus ==
    \/ NextWith({1}, EndpointValues \ {<<>>}, StatusConfigs, {"none"})
    \/ \E a1 \in StatusAnswers, a2 \in ResumeAnswers : MaybeResume(a1, a2)
    \/ \E a \in StatusAnswers : ConnectorStatus(a)
    \/ \E a1 \in TasksAnswers, a2 \in TaskAnswers : TaskStatusRead(a1, a2)

SpecStatus == Init /\ [][NextStatus]_vars

\* the relation is broken and established again: two relations in a run,
\* with or without the peer relation, a remote that answers or answers 500
CycleFaults == {"none", "http500"}
NextCycle ==
    \/ PeerRelationCreated
    \/ NextWith({1, 2}, EndpointValues \ {<<>>}, LiveConfigs, CycleFaults)

SpecCycle == InitStore /\ [][NextCycle]_vars

\* the test charm deployed as a source or as a sink, and a sink charm whose
\* setup does nothing, against a responsive remote
ModeCharms == {SourceCharm, SinkCharm, [SinkCharm EXCEPT !.setup = "configure_class"]}
InitMode == \E c \in ModeCharms : InitWith(c, TRUE)
NextMode == NextWith({1}, EndpointValues \ {<<>>}, StatusConfigs, {"none"})
SpecMode == InitMode /\ [][NextMode]_vars

\* right-biased merge of two mappings
MergeMap(base, over) ==
    [k \in DOMAIN base \cup DOMAIN over |-> IF k \in DOMAIN over THEN over[k] ELSE base[k]]

\* ------------------------------------------- the verbs of the client
Verbs == {"patch", "resume", "stop", "delete"}
ClientOp(verb) == "client_" \o verb

\* the charm calls a verb of ConnectClient for a connector (None: its own)
ClientVerb(verb, name, answer) ==
    /\ relId # 0
    /\ \E n \in {EffectiveName(name, connector_unique_name(relId))} :
       \E r \in {request(endpoints,
                         IF Reachable(endpoints) THEN RemoteAsk(remote, n, answer)
                         ELSE Transport)} :
          /\ log' = << CASE verb = "patch" -> Call("PATCH", ConfigApi(n), endpoints, r)
                        [] verb = "resume" -> Call("PUT", ResumeApi(n), endpoints, r)
                        [] verb = "stop" -> Call("PUT", StopApi(n), endpoints, r)
                        [] verb = "delete" -> Call("DELETE", DeleteApi(n), endpoints, r) >>
          /\ lastOp' = Op(ClientOp(verb),
                          CASE verb = "patch" -> client_patch_connector(r)
                            [] verb = "resume" -> client_resume_connector(r)
                            [] verb = "stop" -> client_stop_connector(r)
                            [] verb = "delete" -> client_delete_connector(r))
          /\ remote' =
                IF r.err # "" \/ r.resp.status \notin 200..299 THEN remote
                ELSE IF verb = "delete" THEN RemoteDelete(remote, n)
                ELSE IF verb = "patch"
                THEN RemotePut(remote, n,
                       MergeMap(RemoteConfig(remote, n),
                                AsMap(to_dict(charm.formatter, charm.config, "source"))))
                ELSE remote
    /\ UNCHANGED <<peer, peerStarted, peerConfig, relId, relCount, cfgCount,
                   endpoints, charm, pending, env, createdOk, crashedPass>>

\* the relation, configure and start against a responsive remote, with
\* direct calls of the verbs for the client's own or the first declared connector
NextClient ==
    \/ \E eps \in EndpointValues : RelationCreated(1, eps)
    \/ \E config \in StatusConfigs : Configure(config)
    \/ StartConnector(0, "none")
    \/ \E verb \in Verbs, answer \in VerbAnswers :
          \E name \in {<<>>} \cup {connector_names[i] : i \in DOMAIN connector_names \cap {1}} :
              ClientVerb(verb, name, answer)

SpecClient == Init /\ [][NextClient]_vars

\* ------------------------------------------------- the formatter alone
\* formatters: up to MaxOptions options named a, b, ... (the order of
\* dir(cls)), each with one of two wire keys, any mode, configurable or not,
\* followed by the inherited `mode` option
OptionNames == <<"a", "b", "c">>
WireKeys == {Str("k1"), Str("k2")}
Modes == {"both", "source", "sink", "none"}
OptionChoices == WireKeys \X Modes \X BOOLEAN
DeclaredOption(i, c) ==
    ConfigOption(Str(OptionNames[i]), c[1], JScalar("default_" \o OptionNames[i]), c[2], c[3])
FormatterInputs ==
    UNION { { [i \in 1..(n + 1) |-> IF i <= n THEN DeclaredOption(i, cs[i])
                                    ELSE BaseModeOption]
              : cs \in [1..n -> OptionChoices] }
            : n \in 1..MaxOptions }

\* charm configs: any of the options a and b set, with or without `mode`
CharmConfigInputs ==
    { SelectSeq(<<Entry(Str("a"), JScalar("config_a")),
                  Entry(Str("b"), JScalar("config_b")),
                  Entry(Str("mode"), JScalar("sink"))>>,
                LAMBDA e : e.key[1] \in keep)
      : keep \in SUBSET {"a", "b", "mode"} }

InitFormat ==
    \E c \in CharmConfigInputs, f \in FormatterInputs :
        InitWith([config |-> c, setup |-> "noop", formatter |-> f], TRUE)

\* formatter.to_dict(charm_config=self.config, mode=mode)
ToDict(mode) ==
    /\ lastOp.op = "init"
    /\ log' = <<Event("to_dict", <<>>, to_dict(charm.formatter, charm.config, mode),
                      0, mode, FALSE, "")>>
    /\ lastOp' = Op("to_dict", mode)
    /\ UNCHANGED <<peer, peerStarted, peerConfig, relId, relCount, cfgCount,
                   endpoints, charm, remote, pending, env, createdOk, crashedPass>>

NextFormat == \E mode \in {"source", "sink"} : ToDict(mode)
SpecFormat == InitFormat /\ [][NextFormat]_vars

\* ============================================================ properties
IsPost(e) == e.ev = "POST"
IsPatch(e) == e.ev = "PATCH"
Posts == SelectSeq(log, IsPost)
Patches == SelectSeq(log, IsPatch)
Range(q) == {q[i] : i \in DOMAIN q}

\* the connectors of the current connector set, in order
ConnectorList ==
    IF connector_names # <<>> THEN connector_names
    ELSE <<connector_unique_name(relId)>>
ConnectorSet == Range(ConnectorList)

\* a create answered 201, or 409 with "already exists"
CreateAccepted(e) == e.status = 201 \/ (e.status = 409 /\ e.body = "exists")

\* the formatter output for the integrator's mode
FormatterMap == AsMap(to_dict(charm.formatter, charm.config, integrator_mode(charm.config)))

\* the payload the k-th connector of the list is due
ExpectedPayload(k) ==
    IF connector_names # <<>>
    THEN MergeMap(FormatterMap, AsMap(DictGet(dynamic_config, connector_names[k]).m))
    ELSE MergeMap(FormatterMap, AsMap(dynamic_config))

\* C1: started is true only if every connector of the current connector set
\* has had a successful create since the flag was last false, whatever the
\* sequence of operations (configure after a successful start included).
C1_StartedOnlyIfAllCreated ==
    started => ConnectorSet \subseteq createdOk

\* C2: a create answered 409 "already exists" is treated as one answered
\* 201: the verb raises nothing, and a start pass whose creates were all
\* answered 201 or such a 409 ends with started = true.
C2_ConflictExistsIsSuccess ==
    /\ \A i \in DOMAIN log :
          (log[i].ev = "POST" /\ CreateAccepted(log[i])) => log[i].err = ""
    /\ (/\ lastOp.op = "start"
        /\ ~lastOp.wasStarted
        /\ lastOp.outcome # "crashed"
        /\ \A i \in DOMAIN Posts : CreateAccepted(Posts[i]))
       => started

C2_Witness ==
    /\ lastOp.op = "start"
    /\ started
    /\ \E i, j \in DOMAIN Posts :
          /\ Posts[i].status = 409 /\ Posts[i].body = "exists"
          /\ Posts[j].status = 201

\* C3: start invoked while started is true runs no setup, issues no REST
\* call, leaves the blob and the remote connectors as they are, and
\* started is still true.
C3_StartIdempotent ==
    [][ (lastOp'.op = "start" /\ started)
          => /\ log' = <<>>
             /\ peerConfig' = peerConfig
             /\ remote' = remote
             /\ started_get(peer', peerStarted') ]_vars

C3_Witness ==
    /\ lastOp.op = "start"
    /\ lastOp.wasStarted
    /\ started
    /\ log = <<>>
    /\ remote # {}

\* C4: in start the first create failing with an ApiError ends the pass: it
\* is the last call, the creates went to a prefix of the connector list, no
\* other verb is issued and what was created stays, nothing propagates and
\* started is false.
C4_FirstFailureAborts ==
    lastOp.op = "start" =>
      \A i \in DOMAIN log :
        (log[i].ev = "POST" /\ log[i].err = "ConnectApiError") =>
          /\ i = Len(log)
          /\ lastOp.outcome = "aborted"
          /\ ~started
          /\ \A j \in DOMAIN log : log[j].ev \in {"setup", "POST"}
          /\ Len(Posts) <= Len(ConnectorList)
          /\ \A k \in DOMAIN Posts : Posts[k].name = ConnectorList[k]
          /\ \A k \in DOMAIN Posts :
                Posts[k].err = "" => RemoteHas(remote, Posts[k].name)

C4_Witness ==
    /\ lastOp.op = "start"
    /\ lastOp.outcome = "aborted"
    /\ Len(ConnectorList) = 2
    /\ Len(Posts) = 1
    /\ Posts[1].err = "ConnectApiError"
    /\ ~RemoteHas(remote, ConnectorList[2])
    /\ ~started

\* a start pass that ran, returned, and whose creates all returned normally
StartPassSucceeded ==
    /\ lastOp.op = "start"
    /\ ~lastOp.wasStarted
    /\ lastOp.outcome \notin {"crashed", "raised"}
    /\ \A i \in DOMAIN Posts : Posts[i].err = ""

\* C5 as stated: after a start pass whose creates all succeeded, started
\* reads true, whatever the state of the store (peer relation absent included).
C5_SuccessfulStartSetsFlag ==
    StartPassSucceeded => started

\* C5, amended: after a start pass whose creates all succeeded, started
\* reads true provided the peer relation that stores the flag exists.
C5_SuccessfulStartSetsFlagWithPeer ==
    (StartPassSucceeded /\ peer) => (started /\ peerStarted = "true")

C5_Witness ==
    /\ StartPassSucceeded
    /\ peer
    /\ started
    /\ Len(Posts) >= 1
\* C6: a successful start issues one create per multi-connector key of the
\* blob, in order and named by the key, with the formatter output merged
\* right-biased with that key's overrides, and none for the implicit
\* connector; without such a key it issues one create, for the connector
\* unique name, with the formatter output merged with the whole blob.
C6_StartFanOut ==
    (lastOp.op = "start" /\ lastOp.outcome = "done") =>
      /\ Len(Posts) = Len(ConnectorList)
      /\ \A k \in DOMAIN Posts :
            /\ Posts[k].name = ConnectorList[k]
            /\ AsMap(Posts[k].payload) = ExpectedPayload(k)
      /\ connector_names # <<>> =>
            \A k \in DOMAIN Posts : Posts[k].name # connector_unique_name(relId)
      /\ connector_names = <<>> =>
            /\ Len(Posts) = 1
            /\ Posts[1].name = connector_unique_name(relId)

C6_Witness ==
    /\ lastOp.op = "start"
    /\ lastOp.outcome = "done"
    /\ Len(connector_names) = 2
    /\ Len(Posts) = 2
    /\ \E k \in DOMAIN Posts :
          /\ DictHas(Posts[k].payload, Str("topic"))
          /\ DictGet(Posts[k].payload, Str("topic")) = JScalar("ta")
    /\ \E k \in DOMAIN Posts :
          DictGet(Posts[k].payload, Str("topic")) = JScalar("source_test")

\* C7: once the health check, the readiness predicate and the remote hold
\* for good, and the deferred integration_created event keeps being
\* redelivered, started becomes true and the event is no longer deferred,
\* whatever earlier passes left on the remote.
C7_RetriedStartConverges ==
    (env = "stable" /\ pending) ~> (started /\ ~pending)

C7_Witness ==
    /\ env = "stable"
    /\ lastOp.op = "integration_created"
    /\ lastOp.outcome = "handled"
    /\ started
    /\ ~pending
    /\ \E i \in DOMAIN Posts : Posts[i].status = 409 /\ Posts[i].body = "exists"

\* every create of the last operation reached the remote and was accepted
RemoteAnsweredAll ==
    \A i \in DOMAIN Posts : Posts[i].sent /\ CreateAccepted(Posts[i])

\* C8: a start pass interrupted before its last step leaves started false;
\* a later complete start against a responsive remote issues a create for
\* every connector, those already created included, after which every
\* connector exists and started is true.
C8_CrashRecovery ==
    /\ (lastOp.op = "start" /\ lastOp.outcome = "crashed") => ~started
    /\ (/\ lastOp.op = "start"
        /\ lastOp.afterCrash
        /\ lastOp.outcome # "crashed"
        /\ RemoteAnsweredAll)
       => /\ Len(Posts) = Len(ConnectorList)
          /\ \A k \in DOMAIN Posts : Posts[k].name = ConnectorList[k]
          /\ \A c \in ConnectorSet : RemoteHas(remote, c)
          /\ started

C8_Witness ==
    /\ lastOp.op = "start"
    /\ lastOp.afterCrash
    /\ lastOp.outcome = "done"
    /\ Len(Posts) = 2
    /\ Posts[1].status = 409
    /\ Posts[2].status = 201
    /\ started

\* C9: patch invoked while started is false runs no setup, issues no HTTP
\* call, leaves the blob unchanged, and started is still false.
C9_PatchSkippedWhenNotStarted ==
    [][ (lastOp'.op = "patch" /\ ~started)
          => /\ log' = <<>>
             /\ peerConfig' = peerConfig
             /\ remote' = remote
             /\ ~started_get(peer', peerStarted') ]_vars

C9_Witness ==
    /\ lastOp.op = "patch"
    /\ ~lastOp.wasStarted
    /\ ~started
    /\ log = <<>>
    /\ peerConfig # <<>>

\* C10: patch on a started integrator issues PATCH calls to a prefix of the
\* connector list, in order, with the payloads of start; a failing PATCH is
\* the last call and nothing propagates; connectors patched before it hold
\* their new configuration; started stays true, and is written again when
\* every PATCH succeeded.
C10_PatchPass ==
    (lastOp.op = "patch" /\ lastOp.wasStarted) =>
      /\ Len(Patches) <= Len(ConnectorList)
      /\ \A k \in DOMAIN Patches :
            /\ Patches[k].name = ConnectorList[k]
            /\ AsMap(Patches[k].payload) = ExpectedPayload(k)
            /\ Patches[k].err # "" =>
                  /\ k = Len(Patches)
                  /\ Patches[k].err = "ConnectApiError"
                  /\ lastOp.outcome = "aborted"
            /\ Patches[k].err = "" =>
                  /\ RemoteHas(remote, Patches[k].name)
                  /\ \A key \in DictKeys(Patches[k].payload) :
                        /\ key \in DOMAIN RemoteConfig(remote, Patches[k].name)
                        /\ RemoteConfig(remote, Patches[k].name)[key]
                             = DictGet(Patches[k].payload, key)
      /\ started
      /\ (\A k \in DOMAIN Patches : Patches[k].err = "") =>
            /\ Len(Patches) = Len(ConnectorList)
            /\ lastOp.outcome = "done"
            /\ log[Len(log)].ev = "set_started"

C10_Witness ==
    /\ lastOp.op = "patch"
    /\ lastOp.outcome = "aborted"
    /\ Len(ConnectorList) = 2
    /\ Len(Patches) = 2
    /\ Patches[1].err = ""
    /\ Patches[2].err = "ConnectApiError"
    /\ started

\* C11: when start or patch aborts on an ApiError, the started flag and the
\* dynamic configuration blob are what they were before the operation was
\* invoked, also when the setup step it runs calls configure.
C11_AbortLeavesStateUnchanged ==
    [][ (lastOp'.op \in {"start", "patch"} /\ lastOp'.outcome = "aborted")
          => /\ peerStarted' = peerStarted
             /\ peerConfig' = peerConfig ]_vars

IsGet(e) == e.ev = "GET"
IsPut(e) == e.ev = "PUT"
Gets == SelectSeq(log, IsGet)
Puts == SelectSeq(log, IsPut)

\* the request got an HTTP response
Answered(e) == e.err = ""

\* the response is 200 with a JSON body
AnsweredJson(e) == Answered(e) /\ e.status = 200 /\ e.body.json

\* the connector.state string of a connector status response, "" when absent
ReportedState(e) ==
    IF /\ AnsweredJson(e)
       /\ DictHas(e.body.doc, Str("connector"))
       /\ DictHas(DictGet(e.body.doc, Str("connector")).m, Str("state"))
    THEN DictGet(DictGet(e.body.doc, Str("connector")).m, Str("state")).s
    ELSE ""

\* C12: maybe_resume issues a resume call only when the connector status it
\* reads is STOPPED, and then exactly one: none for RUNNING, PAUSED, FAILED,
\* UNASSIGNED and UNKNOWN, whether reported by the remote or derived from
\* its answer.
C12_ResumeOnlyWhenStopped ==
    lastOp.op = "resume" =>
      /\ Len(Gets) = 1
      /\ \A i \in DOMAIN log : log[i].ev = "status" =>
            /\ (log[i].err = "" /\ log[i].body = "STOPPED") => Len(Puts) = 1
            /\ (log[i].err # "" \/ log[i].body # "STOPPED") => Len(Puts) = 0
      /\ ReportedState(Gets[1]) \in {"RUNNING", "PAUSED", "FAILED", "UNASSIGNED", "UNKNOWN"}
            => Len(Puts) = 0
      /\ ReportedState(Gets[1]) = "STOPPED" => Len(Puts) = 1
      /\ (~Answered(Gets[1]) \/ Gets[1].status # 200) => Len(Puts) = 0

C12_Witness ==
    /\ lastOp.op = "resume"
    /\ lastOp.outcome = "resumed"
    /\ ReportedState(Gets[1]) = "STOPPED"
    /\ Len(Puts) = 1
    /\ Puts[1].status = 202

\* C13: on a started integrator the status that resume consults and the
\* resume call target the first connector of the connector list: the first
\* multi-connector key when there is one, else the implicit connector.
C13_ResumeTargetsFirstConnector ==
    (lastOp.op = "resume" /\ started) =>
      /\ \A i \in DOMAIN Gets : Gets[i].name = StatusApi(ConnectorList[1])
      /\ \A i \in DOMAIN Puts : Puts[i].name = ResumeApi(ConnectorList[1])

\* C14: when the resume call fails (a status other than 202, or no response)
\* maybe_resume returns normally and leaves the started flag and the blob
\* as they were.
C14_FailedResumeNotEscalated ==
    [][ (lastOp'.op = "resume" /\ \E i \in DOMAIN log' :
             log'[i].ev = "PUT" /\ (log'[i].err # "" \/ log'[i].status # 202))
          => /\ lastOp'.outcome = "failed"
             /\ peerStarted' = peerStarted
             /\ peerConfig' = peerConfig ]_vars

C14_Witness ==
    /\ lastOp.op = "resume"
    /\ lastOp.outcome = "failed"
    /\ started
    /\ Len(Puts) = 1
    /\ Puts[1].status = 500

\* C15: the task status of the controller is UNASSIGNED, without a request,
\* when started is false; when started is true every request is about the
\* first declared connector, or about the implicit connector when none is
\* declared.
C15_TaskStatusQuery ==
    lastOp.op = "task_status" =>
      /\ ~started => (lastOp.outcome = "UNASSIGNED" /\ log = <<>>)
      /\ started =>
            /\ Len(Gets) >= 1
            /\ Gets[1].name = TasksApi(ConnectorList[1])
            /\ \A i \in DOMAIN Gets :
                  StartsWith(Gets[i].name, TasksApi(ConnectorList[1]))

C15_Witness ==
    /\ lastOp.op = "task_status"
    /\ started
    /\ Len(connector_names) = 2
    /\ Len(Gets) = 2
    /\ lastOp.outcome = "RUNNING"

\* C16: connector_status yields UNKNOWN when the request fails in transit,
\* UNASSIGNED for 404, UNKNOWN for any other status than 200 and 404, and for
\* 200 the TaskStatus named by connector.state, UNASSIGNED when it is absent.
C16_ConnectorStatusMapping ==
    lastOp.op = "connector_status" =>
      /\ Len(Gets) = 1
      /\ ~Answered(Gets[1]) => lastOp.outcome = "UNKNOWN"
      /\ (Answered(Gets[1]) /\ Gets[1].status = 404) => lastOp.outcome = "UNASSIGNED"
      /\ (Answered(Gets[1]) /\ Gets[1].status \notin {200, 404})
            => lastOp.outcome = "UNKNOWN"
      /\ ReportedState(Gets[1]) \in TaskStatus
            => lastOp.outcome = ReportedState(Gets[1])
      /\ (AnsweredJson(Gets[1]) /\ ReportedState(Gets[1]) = "")
            => lastOp.outcome = "UNASSIGNED"

C16_Witness ==
    /\ lastOp.op = "connector_status"
    /\ lastOp.outcome = "RUNNING"
    /\ Gets[1].status = 200
    /\ ReportedState(Gets[1]) = "RUNNING"

\* C17: when a request of a status read fails in transit, connector_status
\* and task_status return UNKNOWN, for the request for the tasks as for the
\* request for the task.
C17_StatusReadsSurviveTransport ==
    (/\ lastOp.op \in {"connector_status", "task_status"}
     /\ \E i \in DOMAIN Gets : ~Answered(Gets[i]))
       => lastOp.outcome = "UNKNOWN"

\* C18: whatever HTTP responses a status read receives, connector_status and
\* task_status return a member of TaskStatus.
C18_StatusAlwaysAValue ==
    (/\ lastOp.op \in {"connector_status", "task_status"}
     /\ \A i \in DOMAIN Gets : Answered(Gets[i]))
       => lastOp.outcome \in TaskStatus

\* the state string of a task status response, "" when absent
ReportedTaskState(e) ==
    IF AnsweredJson(e) /\ DictHas(e.body.doc, Str("state"))
    THEN DictGet(e.body.doc, Str("state")).s
    ELSE ""

\* the response lists no task
NoTask(e) == AnsweredJson(e) /\ e.body.doc = <<>>

\* the response lists tasks and the first one has the numeric id task_id
FirstTaskIs(e, task_id) ==
    /\ AnsweredJson(e)
    /\ e.body.doc # <<>>
    /\ DictHas(e.body.doc[1], Str("id"))
    /\ DictGet(e.body.doc[1], Str("id")).m = <<Entry(Str("task"), JScalar(task_id))>>

\* how task_status maps the response to its second request
TaskResponseMapped ==
    /\ Len(Gets) = 2
    /\ \A task_id \in 0..1 :
          FirstTaskIs(Gets[1], task_id)
            => Gets[2].name = TaskStatusApi(ConnectorList[1], task_id)
    /\ (Answered(Gets[2]) /\ Gets[2].status = 404) => lastOp.outcome = "UNASSIGNED"
    /\ (Answered(Gets[2]) /\ Gets[2].status \notin {200, 404})
          => lastOp.outcome = "UNKNOWN"
    /\ ReportedTaskState(Gets[2]) \in TaskStatus
          => lastOp.outcome = ReportedTaskState(Gets[2])
    /\ (AnsweredJson(Gets[2]) /\ ReportedTaskState(Gets[2]) = "")
          => lastOp.outcome = "UNASSIGNED"

\* a task status read whose first request got an HTTP response with, for
\* 200, a JSON body
TaskStatusAnswered ==
    /\ lastOp.op = "task_status"
    /\ started
    /\ Len(Gets) >= 1
    /\ Answered(Gets[1])
    /\ Gets[1].status = 200 => Gets[1].body.json

\* C19 as stated: 404 or an empty task list on the tasks request yields
\* UNASSIGNED without a second request; in every other case one further GET
\* is made, for the first task's id, and its response is mapped.
C19_TaskStatusMapping ==
    TaskStatusAnswered =>
      IF Gets[1].status = 404 \/ NoTask(Gets[1])
      THEN lastOp.outcome = "UNASSIGNED" /\ Len(Gets) = 1
      ELSE TaskResponseMapped

\* C19, amended: 404 or an empty task list yields UNASSIGNED, and any other
\* status than 200 and 404 yields UNKNOWN, without a second request; for 200
\* with a task listed one further GET is made, for the first task's id, and
\* its response is mapped.
C19_TaskStatusMappingAmended ==
    TaskStatusAnswered =>
      IF Gets[1].status = 404 \/ NoTask(Gets[1])
      THEN lastOp.outcome = "UNASSIGNED" /\ Len(Gets) = 1
      ELSE IF Gets[1].status # 200
      THEN lastOp.outcome = "UNKNOWN" /\ Len(Gets) = 1
      ELSE TaskResponseMapped

C19_Witness ==
    /\ TaskStatusAnswered
    /\ FirstTaskIs(Gets[1], 1)
    /\ Len(Gets) = 2
    /\ ReportedTaskState(Gets[2]) = "FAILED"
    /\ lastOp.outcome = "FAILED"

\* C20: when the relation supplies no endpoints, start raises a
\* configuration error to its caller, no HTTP request is attempted and
\* started stays false.
C20_EmptyEndpointsRaise ==
    (/\ lastOp.op = "start"
     /\ ~lastOp.wasStarted
     /\ lastOp.outcome # "crashed"
     /\ relId # 0
     /\ endpoints = <<>>)
       => /\ lastOp.outcome = "raised"
          /\ \E i \in DOMAIN log : log[i].err = "ConnectClientError"
          /\ \A i \in DOMAIN log : ~log[i].sent
          /\ ~started
\* what the integration_created handler did last
Handled == lastOp.op = "integration_created" /\ lastOp.outcome # "raised"
Steps(lg) == {lg[i].ev : i \in DOMAIN lg}
Unready(lg) == Steps(lg) \cap {"health_failed", "not_ready"} # {}
Redelivery(lg) == "defer" \in Steps(lg)

\* what holds of every run of the handler that returns: without health or
\* readiness no setup, no request and a deferral; with both, start
IntegrationCreatedChecked ==
    /\ Unready(log') =>
          /\ Steps(log') \cap {"setup", "POST", "set_started"} = {}
          /\ remote' = remote /\ peerConfig' = peerConfig /\ peerStarted' = peerStarted
          /\ Redelivery(log') /\ pending'
    /\ ~Unready(log') =>
          /\ started \/ "setup" \in Steps(log')
          /\ Redelivery(log') <=> ~started_get(peer', peerStarted')
          /\ pending' <=> ~started_get(peer', peerStarted')

\* C21 as stated: without health or readiness the handler issues no create,
\* runs no setup and defers; with both it runs start and defers exactly when
\* started is false afterwards; in every run of the handler the event is
\* deferred if and only if started is false when the handler returns.
C21_IntegrationCreated ==
    [][ (lastOp'.op = "integration_created" /\ lastOp'.outcome # "raised")
          => /\ IntegrationCreatedChecked
             /\ Redelivery(log') <=> ~started_get(peer', peerStarted') ]_vars

\* C21, amended: as above, but the event is deferred if and only if started
\* is false on return only in the runs where health and readiness hold;
\* without them it is deferred whatever the flag.
C21_IntegrationCreatedAmended ==
    [][ (lastOp'.op = "integration_created" /\ lastOp'.outcome # "raised")
          => IntegrationCreatedChecked ]_vars

C21_Witness ==
    /\ Handled
    /\ Unready(log)
    /\ Redelivery(log)
    /\ started
    /\ pending
\* C22: whatever the flag and the blob, the relation-broken handler runs
\* teardown and ends with started false; the integration_created handler
\* that next passes its checks while started is false runs a start pass
\* again: setup, then creates for the connector list in order, all of them
\* and the write of the flag when none fails.
C22_RelationBrokenUnconditional ==
    [][ /\ lastOp'.op = "relation_broken"
           => /\ log'[1] = Step("teardown")
              /\ ~started_get(peer', peerStarted')
        /\ (lastOp'.op = "integration_created" /\ ~started /\ ~Unready(log')
              /\ lastOp'.outcome # "raised")
           => /\ "setup" \in Steps(log')
              /\ Len(Posts') >= 1
              /\ \A k \in DOMAIN Posts' :
                    k <= Len(ConnectorList') /\ Posts'[k].name = ConnectorList'[k]
              /\ (\A k \in DOMAIN Posts' : Posts'[k].err = "")
                    => /\ Len(Posts') = Len(ConnectorList')
                       /\ peer => started_get(peer', peerStarted') ]_vars

C22_Witness ==
    /\ lastOp.op = "integration_created"
    /\ lastOp.outcome = "handled"
    /\ ~lastOp.wasStarted
    /\ started
    /\ relId = 2
    /\ RemoteHas(remote, connector_unique_name(1))
    /\ RemoteHas(remote, connector_unique_name(2))
\* the options of the formatter that the mode includes
Included(option, mode) == option.mode \in {"both", mode}
\* the value an option is due: the charm config value under its name when
\* it is configurable and the name is set, else its default
DueValue(option) ==
    IF option.configurable /\ DictHas(charm.config, option.name)
    THEN DictGet(charm.config, option.name)
    ELSE option.default

\* C23: for every formatter, charm config and mode, the payload of to_dict
\* has a key if and only if some option of the formatter with that wire key
\* has mode "both" or the given mode.
C23_KeysFollowApplicability ==
    lastOp.op = "to_dict" =>
      LET payload == log[1].payload
          mode == lastOp.outcome
          fields == charm.formatter
      IN  \A k \in WireKeys \cup DictKeys(payload) \cup {Str("na")} :
            DictHas(payload, k) <=>
              \E i \in DOMAIN fields : fields[i].json_key = k /\ Included(fields[i], mode)

C23_Witness ==
    /\ lastOp.op = "to_dict"
    /\ lastOp.outcome = "sink"
    /\ DictKeys(log[1].payload) = {Str("k1")}
    /\ \E i, j \in DOMAIN charm.formatter :
          /\ charm.formatter[i].json_key = Str("k2") /\ charm.formatter[i].mode = "source"
          /\ charm.formatter[j].json_key = Str("k1") /\ charm.formatter[j].mode = "sink"

\* C24 as stated: the value of every included option's wire key is the
\* charm config value under the option's name when the name is set and the
\* option is configurable, and the option's default otherwise.
C24_ValuesFollowConfigurable ==
    lastOp.op = "to_dict" =>
      LET payload == log[1].payload
          fields == charm.formatter
      IN  \A i \in DOMAIN fields :
            Included(fields[i], lastOp.outcome) =>
              /\ DictHas(payload, fields[i].json_key)
              /\ DictGet(payload, fields[i].json_key) = DueValue(fields[i])

\* C24, amended: this holds of every included option whose wire key no
\* included option later in the order of the names shares; of included
\* options with one wire key the last one gives the value.
C24_ValuesFollowConfigurableAmended ==
    lastOp.op = "to_dict" =>
      LET payload == log[1].payload
          fields == charm.formatter
      IN  \A i \in DOMAIN fields :
            (/\ Included(fields[i], lastOp.outcome)
             /\ \A j \in DOMAIN fields :
                   (j > i /\ Included(fields[j], lastOp.outcome))
                     => fields[j].json_key # fields[i].json_key) =>
              /\ DictHas(payload, fields[i].json_key)
              /\ DictGet(payload, fields[i].json_key) = DueValue(fields[i])

C24_Witness ==
    /\ lastOp.op = "to_dict"
    /\ DictHas(charm.config, Str("a")) /\ DictHas(charm.config, Str("b"))
    /\ DictKeys(log[1].payload) = WireKeys
    /\ \E i, j \in DOMAIN charm.formatter :
          /\ i < j
          /\ charm.formatter[i].mode = "both" /\ charm.formatter[j].mode = "both"
          /\ ~charm.formatter[i].configurable
          /\ DictGet(log[1].payload, charm.formatter[i].json_key) = charm.formatter[i].default
          /\ charm.formatter[j].configurable
          /\ DictGet(log[1].payload, charm.formatter[j].json_key) = JScalar("config_b")
\* the one status a verb takes for a success
SuccessCode(verb) ==
    CASE verb = "patch" -> 200
      [] verb = "resume" -> 202
      [] verb = "stop" -> 204
      [] verb = "delete" -> 204

\* C25: patch, resume, stop and delete return normally if and only if the
\* response has the verb's success status (200, 202, 204, 204); for any
\* other status, and when the request fails in transit, they raise an
\* ApiError.
C25_VerbSuccessCodes ==
    \A verb \in Verbs :
      lastOp.op = ClientOp(verb) =>
        /\ Len(log) = 1
        /\ lastOp.outcome = "ok"
              <=> (Answered(log[1]) /\ log[1].status = SuccessCode(verb))
        /\ lastOp.outcome # "ok" => lastOp.outcome = "ConnectApiError"

C25_Witness ==
    /\ lastOp.op = ClientOp("stop")
    /\ lastOp.outcome = "ConnectApiError"
    /\ Answered(log[1])
    /\ log[1].status = 200
    /\ log[1].sent
\* C26: a create whose response is neither 201 nor a 409 that says "already
\* exists" (a 409 with another or no message, a 409 whose body is not JSON,
\* any other status) fails with an ApiError and nothing else, so that start
\* catches it, aborts and leaves started false.
C26_CreateFailureIsApiError ==
    lastOp.op = "start" =>
      \A i \in DOMAIN log :
        (log[i].ev = "POST" /\ log[i].status # 0 /\ ~CreateAccepted(log[i])) =>
          /\ log[i].err = "ConnectApiError"
          /\ lastOp.outcome = "aborted"
          /\ ~started
\* the argument of the configure() that ran last, the blob it found
Configured == log[1].payload
ConfiguredOn == dynamic_config_of(peer, log[1].body)
\* the last entry of a list that carries a name
LastNamed(l, name) ==
    l[CHOOSE i \in DOMAIN l :
        /\ DictGet(l[i], Str("name")).s = name
        /\ \A j \in DOMAIN l : j > i => DictGet(l[j], Str("name")).s # name]
\* the key of the blob for a named connector under a relation
MultiKey(name, rel) ==
    MULTICONNECTOR_PREFIX \o Str("_") \o Str(name) \o Str("_") \o connector_unique_name(rel)

C28_MalformedListRaises ==
    (/\ lastOp.op = "configure"
     /\ Configured.isList
     /\ \E i \in DOMAIN Configured.l : ~DictHas(Configured.l[i], Str("name")))
      => /\ lastOp.outcome = "raised"
         /\ peerConfig = log[1].body
         /\ started = lastOp.wasStarted

C28_Witness ==
    /\ lastOp.op = "configure"
    /\ lastOp.outcome = "raised"
    /\ Configured.l = <<EntryB, Nameless>>
    /\ DictHas(dynamic_config, Str("connector.class"))
    /\ connector_names = <<>>
    /\ started

\* mappings to configure next, one that overlaps the keys in use
NextDicts == SingleDicts \cup {<<Entry(Str("topic"), JScalar("o1"))>>, <<>>}
\* the blob after a further configure(d)
Reconfigured(d) ==
    dynamic_config_of(peer, configure(peer, peerConfig, relId, SingleConfig(d)).text)

\* C29: configure with a single mapping is dict.update on the blob: the
\* blob afterwards is the one before merged with the mapping, its values
\* winning and the other keys kept; a further configure(d2) gives the merge
\* of that with d2, and configuring the same mapping again changes nothing.
C29_ConfigureSingleIsUpdate ==
    (/\ lastOp.op = "configure"
     /\ lastOp.outcome = "returned"
     /\ ~Configured.isList)
      => LET d1 == Configured.d
             merged == MergeMap(AsMap(ConfiguredOn), AsMap(d1))
         IN  /\ AsMap(dynamic_config) = merged
             /\ \A d2 \in NextDicts :
                   AsMap(Reconfigured(d2)) = MergeMap(merged, AsMap(d2))
             /\ Reconfigured(d1) = dynamic_config

C29_Witness ==
    /\ lastOp.op = "configure"
    /\ lastOp.outcome = "returned"
    /\ ~Configured.isList
    /\ DictHas(ConfiguredOn, Str("connector.class"))
    /\ DictKeys(dynamic_config) = {Str("connector.class"), Str("topic"), Str("file")}
    /\ DictGet(dynamic_config, Str("topic")) = JScalar("o2")
    /\ DictGet(Reconfigured(<<Entry(Str("topic"), JScalar("o1"))>>), Str("topic"))
          = JScalar("o1")
\* the connector names of the relations up to MaxRelationId
Identities == [rel \in 1..MaxRelationId |-> connector_unique_name(rel)]

\* C30: the connector unique name depends on the integrator name, the id of
\* the connect-client relation and the model uuid only: no operation
\* changes it while the relation id stays the same, a create for the
\* client's own connector carries it, and two relation ids never give the
\* same name.
C30_IdentityStableAndDistinct ==
    [][ /\ relId' = relId => connector_unique_name(relId') = connector_unique_name(relId)
        /\ \A i \in DOMAIN Posts' :
              (connector_names' = <<>> /\ lastOp'.op \in {"start", "integration_created"})
                => Posts'[i].name = connector_unique_name(relId')
        /\ \A r1 \in 1..MaxRelationId : \A r2 \in (r1 + 1)..MaxRelationId :
              Identities[r1] # Identities[r2]
        /\ \A r \in 1..relCount' : r # relId' => Identities[r] # connector_unique_name(relId') ]_vars

C30_Witness ==
    /\ relId = 2
    /\ lastOp.op = "start"
    /\ connector_names = <<>>
    /\ Len(Posts) = 1
    /\ Posts[1].name = Identities[2]
    /\ Posts[1].status = 201
    /\ RemoteHas(remote, Identities[1])
    /\ Identities[1] # Identities[2]

\* the REST calls of the last operation, and the positions of its steps
IsRest(e) == e.ev \in {"POST", "PATCH"}
RestCalls == SelectSeq(log, IsRest)
StepsAt(ev) == {i \in DOMAIN log : log[i].ev = ev}
RestAt == {i \in DOMAIN log : IsRest(log[i])}
PassRan == lastOp.op \in {"start", "patch", "integration_created"} /\ StepsAt("setup") # {}

\* C31: in a start or patch pass setup completes before the first REST call;
\* the connector set and the overrides are the ones read after setup (what
\* setup stores through configure is in the payloads of the same pass); the
\* REST calls go one at a time in connector-list order, each after the
\* previous one returned normally; the started flag is written only after
\* the last REST call of the pass has succeeded.
C31_PassOrdering ==
    PassRan =>
      /\ Cardinality(StepsAt("setup")) = 1
      /\ \A s \in StepsAt("setup") : \A i \in RestAt : s < i
      /\ Len(RestCalls) <= Len(ConnectorList)
      /\ \A k \in DOMAIN RestCalls :
            /\ RestCalls[k].name = ConnectorList[k]
            /\ AsMap(RestCalls[k].payload) = ExpectedPayload(k)
            /\ k < Len(RestCalls) => RestCalls[k].err = ""
      /\ \A w \in StepsAt("set_started") :
            /\ \A i \in RestAt : i < w
            /\ Len(RestCalls) = Len(ConnectorList)
            /\ \A k \in DOMAIN RestCalls : RestCalls[k].err = ""
      /\ (started /\ ~lastOp.wasStarted) => StepsAt("set_started") # {}

C31_Witness ==
    /\ lastOp.op = "start"
    /\ ~lastOp.wasStarted
    /\ started
    /\ connector_names = <<>>
    /\ log[1].ev = "setup"
    /\ Len(RestCalls) = 1
    /\ DictHas(RestCalls[1].payload, Str("connector.class"))
    /\ DictHas(RestCalls[1].payload, Str("topic"))
    /\ log[Len(log)].ev = "set_started"

\* the wire keys of the options that apply to mode m only
OnlyFor(m) ==
    {charm.formatter[i].json_key : i \in {j \in DOMAIN charm.formatter :
                                             charm.formatter[j].mode = m}}
OtherMode(m) == IF m = "source" THEN "sink" ELSE "source"

\* the overrides the k-th connector of the list has in the blob
Overrides(k) ==
    IF connector_names # <<>> THEN DictGet(dynamic_config, connector_names[k]).m
    ELSE dynamic_config

\* C32: every create and patch payload is the formatter output for the
\* integrator's own mode merged with the connector's overrides: it has every
\* option that applies to that mode only, and no option that applies to the
\* other mode only unless an override supplies that key.
C32_PayloadForOwnMode ==
    PassRan =>
      \A k \in DOMAIN RestCalls :
        /\ AsMap(RestCalls[k].payload) = ExpectedPayload(k)
        /\ OnlyFor(integrator_mode(charm.config)) \subseteq DictKeys(RestCalls[k].payload)
        /\ \A key \in OnlyFor(OtherMode(integrator_mode(charm.config))) :
              DictHas(RestCalls[k].payload, key) => DictHas(Overrides(k), key)

\* the operations that run a start pass, and the ones that only read or configure
StartOps == {"start", "integration_created"}
ReadOps == {"configure", "resume", "connector_status", "task_status"}

\* the started flag changes only as C33 says, in a step of the system
FlagFrame ==
    /\ (~started /\ started_get(peer', peerStarted')) =>
          /\ lastOp'.op \in StartOps
          /\ StepsAt("set_started")' # {}
          /\ Len(RestCalls') = Len(ConnectorList')
          /\ \A k \in DOMAIN RestCalls' : RestCalls'[k].ev = "POST" /\ RestCalls'[k].err = ""
    /\ (started /\ ~started_get(peer', peerStarted')) => lastOp'.op = "relation_broken"
    /\ (lastOp'.op = "patch" /\ StepsAt("set_started")' # {}) =>
          /\ started /\ started_get(peer', peerStarted')
          /\ \A k \in DOMAIN RestCalls' : RestCalls'[k].ev = "PATCH" /\ RestCalls'[k].err = ""
    /\ lastOp'.op \in ReadOps => peerStarted' = peerStarted
    /\ peerStarted' # peerStarted => lastOp'.op \in StartOps \cup {"patch", "relation_broken"}

\* C33 as stated: the started flag changes only from false to true at the
\* end of a fully successful start pass, from true to true at the end of a
\* fully successful patch pass and to false in relation-broken handling;
\* configure, resume and the two status queries never change it; and no
\* operation other than configure changes the dynamic configuration blob.
C33_Frame ==
    [][ /\ FlagFrame
        /\ peerConfig' # peerConfig => lastOp'.op = "configure" ]_vars

\* C33, amended: as above for the flag; the blob changes only in configure
\* or in a start or patch pass, to what the configure call of the
\* caller-provided setup of that pass persists.
C33_FrameAmended ==
    [][ /\ FlagFrame
        /\ peerConfig' # peerConfig =>
              \/ lastOp'.op = "configure"
              \/ /\ lastOp'.op \in StartOps \cup {"patch"}
                 /\ StepsAt("setup")' # {}
                 /\ peerConfig' = setup(charm.setup, peer, peerConfig, relId, charm.config) ]_vars

C33_Witness ==
    /\ lastOp.op = "start"
    /\ ~lastOp.wasStarted
    /\ started
    /\ cfgCount = 0
    /\ DictHas(dynamic_config, Str("connector.class"))
    /\ StepsAt("set_started") # {}

\* C34: relation-broken handling clears the started flag and nothing else of
\* the store: the blob, its multi-connector keys that embed the identity of
\* the broken relation included, is unchanged, so the connector set is the
\* same afterwards and the next start pass calls create for those connectors.
C34_RelationBrokenKeepsConfig ==
    [][ /\ lastOp'.op = "relation_broken" =>
              /\ peerConfig' = peerConfig
              /\ connector_names' = connector_names
              /\ ~started_get(peer', peerStarted')
        /\ (lastOp'.op \in StartOps /\ StepsAt("setup")' # {}) =>
              \A k \in DOMAIN RestCalls' :
                  /\ RestCalls'[k].name = ConnectorList'[k]
                  /\ connector_names # <<>> => RestCalls'[k].name \in Range(connector_names) ]_vars

C34_Witness ==
    /\ relId = 2
    /\ lastOp.op = "start"
    /\ started
    /\ Len(RestCalls) = 2
    /\ RestCalls[1].name = connector_id("a", connector_unique_name(1))
    /\ RestCalls[2].name = connector_id("b", connector_unique_name(1))
    /\ \A k \in DOMAIN RestCalls : RestCalls[k].status \in {201, 409}

\* the last operation was a start that got past the checks of its caller
StartInvoked ==
    \/ lastOp.op = "start"
    \/ lastOp.op = "integration_created" /\ StepsAt("ready") # {}

\* C35: while the peer relation is absent started reads false and writing
\* it stores nothing, the blob reads empty and configure persists nothing
\* and raises nothing, patch does nothing; every start that is not
\* interrupted runs setup and calls create once, for the implicit connector
\* with the formatter output alone, and started still reads false.
C35_StoreWithoutPeer ==
    ~peer =>
      /\ ~started /\ ~lastOp.wasStarted
      /\ peerStarted = ""
      /\ dynamic_config = <<>> /\ connector_names = <<>>
      /\ peerConfig = <<>>
      /\ lastOp.op = "configure" => lastOp.outcome = "returned"
      /\ lastOp.op = "patch" => log = <<>> /\ lastOp.outcome = "noop"
      /\ (StartInvoked /\ lastOp.outcome # "crashed") =>
            /\ Cardinality(StepsAt("setup")) = 1
            /\ Len(RestCalls) = 1
            /\ RestCalls[1].ev = "POST"
            /\ RestCalls[1].name = connector_unique_name(relId)
            /\ RestCalls[1].payload = to_dict(charm.formatter, charm.config, "source")
            /\ \A s \in StepsAt("setup") : \A i \in RestAt : s < i

C35_Witness ==
    /\ ~peer
    /\ cfgCount = 1
    /\ lastOp.op = "start"
    /\ lastOp.outcome = "done"
    /\ StepsAt("set_started") # {}
    /\ Len(RestCalls) = 1
    /\ RestCalls[1].status = 409
    /\ RestCalls[1].err = ""
    /\ ~started
====
